---- MODULE Spec2Model ----
(***************************************************************************)
(* Model of the management command `./manage.py shop` of django-shop       *)
(* (src/shop/management/commands/shop.py): the sub-commands `customers`,   *)
(* `check-pages` and `review-settings`, the page store, the apphook pool,  *)
(* the customer store and the settings they read and write.                *)
(***************************************************************************)
EXTENDS Integers, Sequences, FiniteSets, TLC

VARIABLES
    pages,             \* Page objects (drafts and public copies), in pk order
    product_pages,     \* ProductPageModel rows: <<page pk, product>>
    apphook_pool,      \* registered apphooks, in get_apphooks() order
    customers,         \* CustomerModel rows, in iterator() order
    settings,          \* django.conf.settings, the keys review_settings reads
    subcommand,        \* last invocation: the positional argument
    options,           \* last invocation: [delete_expired, add_missing]
    stdout,            \* last invocation: lines written to self.stdout
    stderr,            \* last invocation: lines written to self.stderr
    error,             \* last invocation: "none" or the exception that escaped handle()
    pages_before,      \* history: the page store when the last invocation started
    customers_before   \* history: the customer store when the last invocation started

vars == <<pages, product_pages, apphook_pool, customers, settings, subcommand,
          options, stdout, stderr, error, pages_before, customers_before>>

(***************************************************************************)
(* Bounds of the model.                                                    *)
(***************************************************************************)
NumLangs == 2
MaxDeviations == 1
MaxCustomers == 2
MaxSettingsFaults == 2

(***************************************************************************)
(* Python values.                                                          *)
(***************************************************************************)
None == "None"

\* Python truthiness of a string-or-None argument (`if base_apphook_name:`).
Truthy(v) == v # None /\ v # ""

\* str.format with named fields: every field of the template must be among
\* the keyword arguments, else KeyError.
format(fields, kwargs) == IF fields \subseteq kwargs THEN "none" ELSE "KeyError"

\* Mutant of SubsetOfGlossary: the glossary compared as a whole.
GlossaryEqualsSubset(subset, glossary) == glossary = subset

\* `all(item in glossary_items for item in subset.items())`; a glossary is
\* its set of (key, value) items.
SubsetOfGlossary(subset, glossary) == \A item \in subset : item \in glossary

Range(s) == {s[i] : i \in DOMAIN s}

RECURSIVE Flatten(_)
Flatten(ss) == IF ss = <<>> THEN <<>> ELSE Head(ss) \o Flatten(Tail(ss))

(***************************************************************************)
(* The framework objects the command works on.                             *)
(***************************************************************************)
AllLanguages == <<"en", "de", "fr", "it">>

\* cms.utils.i18n.get_public_languages()
get_public_languages == SubSeq(AllLanguages, 1, NumLangs)

\* The classes module shop.cms_apphooks defines: import_string finds these.
shop_cms_apphooks == {"CatalogListCMSApp", "CatalogSearchCMSApp", "OrderApp", "PasswordResetApp"}

\* ProductModel.objects.all()
Products == {"product-1", "product-2"}

Message(kind, ref) == [kind |-> kind, ref |-> ref]
NoMessage == Message("", "")

\* An exception raised with a formatted message; a failing format raises instead.
Raise(kind, fields, kwargs, ref) ==
    IF format(fields, kwargs) = "none"
    THEN [exc |-> kind, msg |-> Message(kind, ref)]
    ELSE [exc |-> format(fields, kwargs), msg |-> Message(format(fields, kwargs), ref)]

CommandErrors == {"MissingPage", "MissingAppHook", "MissingPlugin", "CommandError"}

Plugin(plugin_type, language, glossary, parent) ==
    [plugin_type |-> plugin_type, language |-> language, glossary |-> glossary,
     parent |-> parent]

\* Page.objects.public(): the indices (pks) of the public page objects.
PublicPks(pgs) == {i \in DOMAIN pgs : ~pgs[i].publisher_is_draft}

\* QuerySet.first() over a set of pks: lowest pk, 0 when empty.
First(S) == IF S = {} THEN 0 ELSE CHOOSE i \in S : \A j \in S : i <= j

\* apphook_pool.get_apphook(name): the registered apphook of that class
\* name, None when there is none.
get_apphook(name) ==
    IF \E i \in DOMAIN apphook_pool : apphook_pool[i].name = name THEN name ELSE None

(***************************************************************************)
(* Command.get_installed_apphook                                           *)
(***************************************************************************)
get_installed_apphook(base_apphook_name) ==
    IF base_apphook_name \notin shop_cms_apphooks
    THEN [exc |-> "ImportError", msg |-> Message("ImportError", base_apphook_name),
          apphook |-> None]
    ELSE LET found == {i \in DOMAIN apphook_pool :
                          base_apphook_name \in apphook_pool[i].bases}
         IN  IF found # {}
             THEN [exc |-> "none", msg |-> NoMessage,
                   apphook |-> apphook_pool[First(found)].name]
             ELSE Raise("MissingAppHook", {"apphook_name"}, {"apphook_name"},
                        base_apphook_name) @@ [apphook |-> None]

(***************************************************************************)
(* Command.check_page_content: "none" or the exception it raises.          *)
(***************************************************************************)
\* The per-language loop of lines 190-199, over the languages in order.
RECURSIVE CheckLanguages(_, _, _, _)
CheckLanguages(page, langs, plugin_type, subset) ==
    IF langs = <<>> THEN [exc |-> "none", msg |-> NoMessage]
    ELSE LET found == {k \in DOMAIN page.plugins :
                          /\ page.plugins[k].plugin_type = plugin_type
                          /\ page.plugins[k].language = Head(langs)}
         IN  IF found = {}
             THEN Raise("MissingPlugin", {"url", "plugin_name"}, {"url", "plugin_name"},
                        page.reverse_id)
             ELSE IF ~SubsetOfGlossary(subset, page.plugins[First(found)].glossary)
             THEN Raise("MissingPlugin", {"plugin_name", "url"}, {"url", "plugin_name"},
                        page.reverse_id)
             ELSE CheckLanguages(page, Tail(langs), plugin_type, subset)

\* page.get_languages(): the page's languages, in configuration order.
get_languages(page) ==
    SelectSeq(AllLanguages, LAMBDA l : l \in page.languages)

check_page_content(pgs, reverse_id, base_apphook_name, plugin_type, subset) ==
    LET pk == First({i \in PublicPks(pgs) : pgs[i].reverse_id = reverse_id})
    IN  IF pk = 0
        THEN Raise("MissingPage", {"reverse_id"}, {"reverse_id"}, reverse_id)
        ELSE LET page == pgs[pk]
                 installed == get_installed_apphook(base_apphook_name)
             IN  IF Truthy(base_apphook_name) /\ installed.exc # "none"
                 THEN [exc |-> installed.exc, msg |-> installed.msg]
                 ELSE IF /\ Truthy(base_apphook_name)
                         /\ get_apphook(page.application_urls) # installed.apphook
                 THEN Raise("MissingAppHook", {"url", "app_hook"}, {"url", "apphook_name"},
                            page.reverse_id)
                 ELSE IF ~page.slot
                 THEN Raise("MissingPlugin", {"url"}, {"url"}, page.reverse_id)
                 ELSE CheckLanguages(page, get_languages(page), plugin_type, subset)

(***************************************************************************)
(* cms.api, as the command calls it.                                       *)
(***************************************************************************)
Page(is_draft, twin, title, reverse_id, application_urls, languages, slot, plugins) ==
    [publisher_is_draft |-> is_draft, publisher_public |-> twin, title |-> title,
     reverse_id |-> reverse_id, application_urls |-> application_urls,
     languages |-> languages, slot |-> slot, plugins |-> plugins]

\* Position of plugin k of a page among the page's plugins of its language.
RankOf(page, k) ==
    Cardinality({j \in 1..k : page.plugins[j].language = page.plugins[k].language})

\* Mutant of create_page: the reverse id is not stored.
create_page_without_reverse_id(pgs, title, language, apphook, reverse_id) ==
    Append(pgs, Page(TRUE, 0, title, "", apphook, {language}, TRUE, <<>>))

\* cms.api.create_page: a new draft page in one language, bound to `apphook`,
\* with the template's placeholders; its pk is the next one.
create_page(pgs, title, language, apphook, reverse_id) ==
    Append(pgs, Page(TRUE, 0, title, reverse_id, apphook, {language}, TRUE, <<>>))

\* cms.api.add_plugin(placeholder, plugin_type, language, target=, glossary=):
\* a handle on a plugin is [page, plugin, language]; target 0 is the root.
cms_add_plugin(pgs, pk, plugin_type, language, target, glossary) ==
    LET parent == IF target = 0 THEN 0 ELSE RankOf(pgs[pk], target)
        added  == Append(pgs[pk].plugins, Plugin(plugin_type, language, glossary, parent))
    IN  [pages |-> [pgs EXCEPT ![pk].plugins = added],
         leaf  |-> [page |-> pk, plugin |-> Len(added), language |-> language]]

\* cms.api.create_title: the page gets a title in `language`.
create_title(pgs, pk, language) ==
    [pgs EXCEPT ![pk].languages = @ \cup {language}]

\* cms.api.copy_plugins_to_language: the plugins of source_language, copied.
copy_plugins_to_language(pgs, pk, source_language, target_language) ==
    LET source == SelectSeq(pgs[pk].plugins, LAMBDA p : p.language = source_language)
        copies == [k \in DOMAIN source |-> [source[k] EXCEPT !.language = target_language]]
    IN  [pgs EXCEPT ![pk].plugins = @ \o copies]

\* Page.publish(language): the public copy of the draft (made on the first
\* publish) takes the draft's fields and its plugins of that language.
publish(pgs, pk, language) ==
    LET draft    == pgs[pk]
        isnew    == draft.publisher_public = 0
        pub      == IF isnew THEN Len(pgs) + 1 ELSE draft.publisher_public
        kept     == IF isnew THEN <<>>
                    ELSE SelectSeq(pgs[pub].plugins, LAMBDA p : p.language # language)
        fresh    == SelectSeq(draft.plugins, LAMBDA p : p.language = language)
        langs    == (IF isnew THEN {} ELSE pgs[pub].languages) \cup {language}
        public   == Page(FALSE, pk, draft.title, draft.reverse_id, draft.application_urls,
                         langs, draft.slot, kept \o fresh)
    IN  IF language \notin draft.languages THEN pgs
        ELSE IF isnew THEN Append([pgs EXCEPT ![pk].publisher_public = pub], public)
        ELSE [pgs EXCEPT ![pub] = public]

(***************************************************************************)
(* Command.create_page_structure, add_plugin, publish_in_all_languages,    *)
(* assign_all_products_to_page                                             *)
(***************************************************************************)
ContainerGlossary == {<<"breakpoints", "xs,sm,md,lg,xl">>, <<"fluid", None>>}
ColumnGlossary == {<<"xs-column-width", "col">>}

create_page_structure(pgs, title, reverse_id, base_apphook_name) ==
    LET installed == get_installed_apphook(base_apphook_name)
        apphook   == IF Truthy(base_apphook_name) THEN installed.apphook ELSE None
        language  == get_public_languages[1]
        created   == create_page(pgs, title, language, apphook, reverse_id)
        pk        == Len(created)
        container == cms_add_plugin(created, pk, "BootstrapContainerPlugin", language, 0,
                                    ContainerGlossary)
        row       == cms_add_plugin(container.pages, pk, "BootstrapRowPlugin", language,
                                    container.leaf.plugin, {})
        column    == cms_add_plugin(row.pages, pk, "BootstrapColumnPlugin", language,
                                    row.leaf.plugin, ColumnGlossary)
    IN  IF Truthy(base_apphook_name) /\ installed.exc # "none"
        THEN [exc |-> installed.exc, pages |-> pgs, leaf |-> [page |-> 0, plugin |-> 0,
                                                               language |-> language]]
        ELSE [exc |-> "none", pages |-> column.pages, leaf |-> column.leaf]

add_plugin(pgs, leaf_plugin, plugin_type, glossary) ==
    cms_add_plugin(pgs, leaf_plugin.page, plugin_type, leaf_plugin.language,
                   leaf_plugin.plugin, glossary)

RECURSIVE CopyToLanguages(_, _, _)
CopyToLanguages(pgs, pk, langs) ==
    IF langs = <<>> THEN pgs
    ELSE CopyToLanguages(
             copy_plugins_to_language(create_title(pgs, pk, Head(langs)), pk,
                                      get_public_languages[1], Head(langs)),
             pk, Tail(langs))

RECURSIVE PublishLanguages(_, _, _)
PublishLanguages(pgs, pk, langs) ==
    IF langs = <<>> THEN pgs
    ELSE PublishLanguages(publish(pgs, pk, Head(langs)), pk, Tail(langs))

\* Mutant of publish_in_all_languages: the copy into the other languages
\* is left out.
publish_without_copy(pgs, pk) == PublishLanguages(pgs, pk, get_public_languages)

publish_in_all_languages(pgs, pk) ==
    PublishLanguages(CopyToLanguages(pgs, pk, Tail(get_public_languages)), pk,
                     get_public_languages)

assign_all_products_to_page(pp, pk) ==
    pp \cup {<<pk, product>> : product \in Products}

(***************************************************************************)
(* Command.check_pages: the generator, run to its end by handle().  A run  *)
(* state is [pages, product_pages, out, exc]: the stores, the messages     *)
(* yielded so far, and the exception that ended the generator, if any.     *)
(***************************************************************************)
page_attributes == <<
    <<"Search", "shop-search-product", "CatalogSearchCMSApp", "ShopSearchResultsPlugin", {}>>,
    <<"Cart", "shop-cart", None, "ShopCartPlugin", {<<"render_type", "editable">>}>>,
    <<"Watch-List", "shop-watch-list", None, "ShopCartPlugin", {<<"render_type", "watch">>}>>,
    <<"Your Orders", "shop-order", "OrderApp", "ShopOrderViewsPlugin", {}>>,
    <<"Login", "shop-login", None, "ShopAuthenticationPlugin", {<<"form_type", "login">>}>>,
    <<"Register Customer", "shop-register-customer", None, "ShopAuthenticationPlugin",
      {<<"form_type", "register-user">>}>>,
    <<"Your Personal Details", "shop-customer-details", None, "CustomerFormPlugin", {}>>,
    <<"Change Password", "shop-password-change", None, "ShopAuthenticationPlugin",
      {<<"form_type", "password-change">>}>>,
    <<"Request Password Reset", "password-reset-request", None, "ShopAuthenticationPlugin",
      {<<"form_type", "password-reset-request">>}>>,
    <<"Confirm Password Reset", "password-reset-confirm", "PasswordResetApp",
      "ShopAuthenticationPlugin", {<<"form_type", "password-reset-confirm">>}>> >>

PurchaseNowLink == "{type: PURCHASE_NOW}"
ProceedButtonGlossary ==
    {<<"button_type", "btn-success">>, <<"link", PurchaseNowLink>>,
     <<"link_content", "Purchase Now">>}

Yield(st, kind, ref) == [st EXCEPT !.out = Append(@, Message(kind, ref))]
Abort(st, exc) == [st EXCEPT !.exc = exc]

\* Lines 101-111: the catalog page.
CheckCatalog(st, add_missing) ==
    LET installed == get_installed_apphook("CatalogListCMSApp")
        catalog_pages == {i \in PublicPks(st.pages) :
                             st.pages[i].application_urls = installed.apphook}
        structure == create_page_structure(st.pages, "Catalog", "", installed.apphook)
        filled    == add_plugin(structure.pages, structure.leaf, "ShopCatalogPlugin", {})
        published == publish_in_all_languages(filled.pages, filled.leaf.page)
    IN  IF installed.exc # "none" THEN Abort(st, installed.exc)
        ELSE IF catalog_pages # {} THEN st
        ELSE IF ~add_missing THEN Yield(st, "CatalogMissing", "CatalogListCMSApp")
        ELSE IF structure.exc # "none" THEN Abort(st, structure.exc)
        ELSE Yield([st EXCEPT !.pages = published,
                              !.product_pages =
                                  assign_all_products_to_page(@, filled.leaf.page)],
                   "Created", "Catalog")

\* Mutant of CheckRequirement: a missing page is created whatever
\* --add-missing says.
CheckRequirementAlwaysAdding(st, attribs, add_missing) ==
    LET checked   == check_page_content(st.pages, attribs[2], attribs[3], attribs[4],
                                        attribs[5])
        structure == create_page_structure(st.pages, attribs[1], attribs[2], attribs[3])
        filled    == add_plugin(structure.pages, structure.leaf, attribs[4], attribs[5])
        published == publish_in_all_languages(filled.pages, filled.leaf.page)
    IN  IF checked.exc = "none" THEN st
        ELSE IF checked.exc = "MissingPage"
        THEN IF structure.exc # "none" THEN Abort(st, structure.exc)
             ELSE Yield([st EXCEPT !.pages = published], "Created", attribs[1])
        ELSE IF checked.exc \in CommandErrors
        THEN Yield(st, checked.msg.kind, checked.msg.ref)
        ELSE Abort(st, checked.exc)

\* Lines 126-137: one iteration of the loop over page_attributes.
CheckRequirement(st, attribs, add_missing) ==
    LET checked   == check_page_content(st.pages, attribs[2], attribs[3], attribs[4],
                                        attribs[5])
        structure == create_page_structure(st.pages, attribs[1], attribs[2], attribs[3])
        filled    == add_plugin(structure.pages, structure.leaf, attribs[4], attribs[5])
        published == publish_in_all_languages(filled.pages, filled.leaf.page)
    IN  IF checked.exc = "none" THEN st
        ELSE IF checked.exc = "MissingPage"
        THEN IF ~add_missing THEN Yield(st, checked.msg.kind, checked.msg.ref)
             ELSE IF structure.exc # "none" THEN Abort(st, structure.exc)
             ELSE Yield([st EXCEPT !.pages = published], "Created", attribs[1])
        ELSE IF checked.exc \in CommandErrors
        THEN Yield(st, checked.msg.kind, checked.msg.ref)
        ELSE Abort(st, checked.exc)

\* Lines 125-137: the loop; an exception ends the generator.
RECURSIVE CheckRequirements(_, _, _)
CheckRequirements(st, table, add_missing) ==
    IF table = <<>> \/ st.exc # "none" THEN st
    ELSE CheckRequirements(CheckRequirement(st, Head(table), add_missing), Tail(table),
                           add_missing)

\* Lines 140-154: the checkout page, found through the purchase button.
CheckCheckout(st, add_missing) ==
    LET language == get_public_languages[1]
        found == \E i \in PublicPks(st.pages) : \E k \in DOMAIN st.pages[i].plugins :
                     /\ st.pages[i].plugins[k].plugin_type = "ShopProceedButton"
                     /\ st.pages[i].plugins[k].language = language
                     /\ <<"link", PurchaseNowLink>> \in st.pages[i].plugins[k].glossary
        structure == create_page_structure(st.pages, "Checkout", "", None)
        forms     == add_plugin(structure.pages, structure.leaf, "ValidateSetOfFormsPlugin", {})
        button    == add_plugin(forms.pages, forms.leaf, "ShopProceedButton",
                                ProceedButtonGlossary)
        published == publish_in_all_languages(button.pages, forms.leaf.page)
    IN  IF found THEN st
        ELSE IF ~add_missing THEN Yield(st, "CheckoutMissing", "ShopProceedButton")
        ELSE IF structure.exc # "none" THEN Abort(st, structure.exc)
        ELSE Yield([st EXCEPT !.pages = published], "Created", "Checkout")

check_pages(pgs, pp, add_missing) ==
    LET start     == [pages |-> pgs, product_pages |-> pp, out |-> <<>>, exc |-> "none"]
        catalog   == CheckCatalog(start, add_missing)
        looped    == CheckRequirements(catalog, page_attributes, add_missing)
    IN  IF looped.exc # "none" THEN looped ELSE CheckCheckout(looped, add_missing)

(***************************************************************************)
(* Command.customers                                                       *)
(***************************************************************************)
Customer(pk, is_active, is_staff, is_registered, is_guest, is_anonymous, is_expired) ==
    [pk |-> pk, is_active |-> is_active, is_staff |-> is_staff, is_registered |-> is_registered,
     is_guest |-> is_guest, is_anonymous |-> is_anonymous, is_expired |-> is_expired]

ZeroData == [total |-> 0, anonymous |-> 0, active |-> 0, staff |-> 0, guests |-> 0,
             registered |-> 0, expired |-> 0]

Inc(b) == IF b THEN 1 ELSE 0

\* Mutant of Tally: three independent `if`s instead of if/elif/elif.
TallyWithoutPriority(data, customer) ==
    [total      |-> data.total + 1,
     active     |-> data.active + Inc(customer.is_active),
     staff      |-> data.staff + Inc(customer.is_staff),
     registered |-> data.registered + Inc(customer.is_registered),
     guests     |-> data.guests + Inc(customer.is_guest),
     anonymous  |-> data.anonymous + Inc(customer.is_anonymous),
     expired    |-> data.expired + Inc(customer.is_expired)]

\* Lines 75-87: the tallies of one customer.
Tally(data, customer) ==
    [total      |-> data.total + 1,
     active     |-> data.active + Inc(customer.is_active),
     staff      |-> data.staff + Inc(customer.is_staff),
     registered |-> data.registered + Inc(customer.is_registered),
     guests     |-> data.guests + Inc(~customer.is_registered /\ customer.is_guest),
     anonymous  |-> data.anonymous + Inc(/\ ~customer.is_registered
                                         /\ ~customer.is_guest
                                         /\ customer.is_anonymous),
     expired    |-> data.expired + Inc(customer.is_expired)]

\* Mutant of CustomersLoop: --delete-expired deletes every customer.
RECURSIVE CustomersLoopDeletingAll(_, _, _, _)
CustomersLoopDeletingAll(rest, data, kept, delete_expired) ==
    IF rest = <<>> THEN [data |-> data, customers |-> kept]
    ELSE CustomersLoopDeletingAll(Tail(rest), Tally(data, Head(rest)),
                                  IF delete_expired THEN kept ELSE Append(kept, Head(rest)),
                                  delete_expired)

\* Lines 74-89: the loop; `kept` are the rows not deleted.
RECURSIVE CustomersLoop(_, _, _, _)
CustomersLoop(rest, data, kept, delete_expired) ==
    IF rest = <<>> THEN [data |-> data, customers |-> kept]
    ELSE CustomersLoop(Tail(rest), Tally(data, Head(rest)),
                       IF Head(rest).is_expired /\ delete_expired
                       THEN kept ELSE Append(kept, Head(rest)),
                       delete_expired)

customers_command(rows, delete_expired) == CustomersLoop(rows, ZeroData, <<>>, delete_expired)

(***************************************************************************)
(* Command.review_settings: the diagnostics yielded, and the exception     *)
(* that ended the generator, if any.  A diagnostic is named by its rule.   *)
(***************************************************************************)
PyTrue == "True"
PyFalse == "False"

\* A path or URL is its segments: <<"static", "node_modules">> is
\* "/static/node_modules", with a trailing "/" when `slash`.
Path(segments, slash) == [segments |-> segments, slash |-> slash]

\* '/node_modules/' in url
ContainsNodeModulesDir(p) ==
    \E i \in DOMAIN p.segments :
        p.segments[i] = "node_modules" /\ (i < Len(p.segments) \/ p.slash)

\* '/node_modules' in dir
ContainsNodeModules(p) == \E i \in DOMAIN p.segments : p.segments[i] = "node_modules"

DjangoTemplates == "django.template.backends.django.DjangoTemplates"

\* dict(STATICFILES_DIRS): every element must be a pair; a plain path
\* string is none (ValueError).
DictOfDirs(dirs) ==
    IF \E i \in DOMAIN dirs : dirs[i].prefix = None
    THEN [exc |-> "ValueError", keys |-> {}]
    ELSE [exc |-> "none", keys |-> {dirs[i].prefix : i \in DOMAIN dirs}]

\* Lines 261-268: the loop over TEMPLATES.
RECURSIVE ReviewTemplates(_, _)
ReviewTemplates(st, engines) ==
    IF engines = <<>> \/ st.exc # "none" THEN st
    ELSE LET engine == Head(engines)
             cps == engine.context_processors
             one == IF "shop.context_processors.customer" \notin cps
                    THEN Append(st.out, "context_processors.customer") ELSE st.out
             two == IF "shop.context_processors.shop_settings" \notin cps
                    THEN Append(one, "context_processors.shop_settings") ELSE one
         IN  IF engine.BACKEND # DjangoTemplates THEN ReviewTemplates(st, Tail(engines))
             ELSE IF ~engine.has_OPTIONS THEN [st EXCEPT !.exc = "KeyError"]
             ELSE ReviewTemplates([st EXCEPT !.out = two], Tail(engines))

\* One rule of the form `if <failed>: yield <diagnostic>`.
Rule(st, failed, diagnostic) ==
    IF st.exc = "none" /\ failed THEN [st EXCEPT !.out = Append(@, diagnostic)] ELSE st

review_settings(stg) ==
    LET r0  == [out |-> <<>>, exc |-> "none"]
        r1  == Rule(r0, stg.AUTH_USER_MODEL # "email_auth.User", "AUTH_USER_MODEL")
        r2  == Rule(r1, "sass_processor.finders.CssFinder" \notin stg.STATICFILES_FINDERS,
                    "STATICFILES_FINDERS")
        d   == DictOfDirs(stg.STATICFILES_DIRS)
        r3  == IF d.exc # "none" THEN [r2 EXCEPT !.exc = d.exc]
               ELSE Rule(r2, "node_modules" \notin d.keys, "STATICFILES_DIRS")
        r4  == Rule(r3, ~ContainsNodeModulesDir(stg.NODE_MODULES_URL), "NODE_MODULES_URL")
        r5  == ReviewTemplates(r4, stg.TEMPLATES)
        r6  == Rule(r5, ~\E i \in DOMAIN stg.SASS_PROCESSOR_INCLUDE_DIRS :
                            ContainsNodeModules(stg.SASS_PROCESSOR_INCLUDE_DIRS[i]),
                    "SASS_PROCESSOR_INCLUDE_DIRS")
        r7  == Rule(r6, stg.COERCE_DECIMAL_TO_STRING # PyTrue, "COERCE_DECIMAL_TO_STRING")
        r8  == Rule(r7, stg.FSM_ADMIN_FORCE_PERMIT # PyTrue, "FSM_ADMIN_FORCE_PERMIT")
        r9  == Rule(r8, stg.SERIALIZATION_MODULES_json # "shop.money.serializers",
                    "SERIALIZATION_MODULES")
        r10 == Rule(r9, "shop.rest.money.JSONRenderer" \notin stg.DEFAULT_RENDERER_CLASSES,
                    "DEFAULT_RENDERER_CLASSES")
        r11 == Rule(r10, "django_filters.rest_framework.DjangoFilterBackend"
                             \notin stg.DEFAULT_FILTER_BACKENDS,
                    "DEFAULT_FILTER_BACKENDS")
        r12 == Rule(r11, stg.LOGIN_SERIALIZER # "shop.serializers.auth.LoginSerializer",
                    "REST_AUTH_SERIALIZERS")
    IN  Rule(r12, "shop.cascade" \notin stg.CMSPLUGIN_CASCADE_PLUGINS,
             "CMSPLUGIN_CASCADE_PLUGINS")

(***************************************************************************)
(* Initial states: the stores and configuration the command can be run on. *)
(***************************************************************************)
\* The twelve pages check_pages asks for: the catalog page (site 0), the
\* rows of page_attributes (sites 1..10) and the checkout page (site 11).
Sites == 0..(Len(page_attributes) + 1)

Requirement(site) ==
    IF site = 0 THEN <<"Catalog", "", "CatalogListCMSApp", "ShopCatalogPlugin", {}>>
    ELSE IF site = Len(page_attributes) + 1
    THEN <<"Checkout", "", None, "ShopProceedButton", ProceedButtonGlossary>>
    ELSE page_attributes[site]

\* How an apphook base class can be installed: not at all, registered
\* itself, or through a subclass the project defines in its own module.
Registrations == {"none", "direct", "subclass"}

ProjectSubclass(base) ==
    CASE base = "CatalogListCMSApp" -> "CatalogListApp"
      [] base = "CatalogSearchCMSApp" -> "CatalogSearchApp"
      [] base = "OrderApp" -> "ProjectOrderApp"
      [] OTHER -> "ProjectPasswordResetApp"

BaseApphooks == <<"CatalogListCMSApp", "CatalogSearchCMSApp", "OrderApp", "PasswordResetApp">>

ApphookName(base, registration) ==
    IF registration = "subclass" THEN ProjectSubclass(base) ELSE base

RECURSIVE PoolOf(_, _)
PoolOf(bases, registration) ==
    IF bases = <<>> THEN <<>>
    ELSE (IF registration[Head(bases)] = "none" THEN <<>>
          ELSE << [name  |-> ApphookName(Head(bases), registration[Head(bases)]),
                   bases |-> {Head(bases),
                              ApphookName(Head(bases), registration[Head(bases)])}] >>)
         \o PoolOf(Tail(bases), registration)

\* The states a required page can be found in.
Shapes == {"absent", "draft", "ok", "extra", "first_language", "unbound", "no_slot",
           "no_plugin", "partial", "other_language", "misconfigured", "shadowed"}

Misconfigured(glossary) == {<<item[1], "other">> : item \in glossary}

\* The required widget (the checkout button sits in a form set).
Widget(req, language, glossary, parent) ==
    IF req[1] = "Checkout"
    THEN << Plugin("ValidateSetOfFormsPlugin", language, {}, parent),
            Plugin(req[4], language, glossary, parent + 1) >>
    ELSE << Plugin(req[4], language, glossary, parent) >>

PluginsIn(req, shape, language) ==
    LET first == language = get_public_languages[1]
    IN  CASE shape = "no_plugin" -> << Plugin("TextPlugin", language, {}, 0) >>
          [] shape = "partial" -> IF first THEN Widget(req, language, req[5], 0) ELSE <<>>
          [] shape = "other_language" ->
                 IF first THEN <<>> ELSE Widget(req, language, req[5], 0)
          [] shape = "extra" -> Widget(req, language, req[5] \cup {<<"extra_key", "1">>}, 0)
          [] shape = "misconfigured" -> Widget(req, language, Misconfigured(req[5]), 0)
          [] shape = "shadowed" -> Widget(req, language, Misconfigured(req[5]), 0)
                                   \o Widget(req, language, req[5], 0)
          [] OTHER -> Widget(req, language, req[5], 0)

\* The page objects of one site, twins numbered from `offset`.
SitePages(req, shape, registration, offset) ==
    LET langs == IF shape = "first_language" THEN <<get_public_languages[1]>>
                 ELSE get_public_languages
        app   == IF Truthy(req[3]) /\ shape # "unbound"
                 THEN ApphookName(req[3], registration[req[3]]) ELSE None
        plugins == IF shape = "no_slot" THEN <<>>
                   ELSE Flatten([k \in DOMAIN langs |-> PluginsIn(req, shape, langs[k])])
        draft(twin)  == Page(TRUE, twin, req[1], req[2], app, Range(langs),
                             shape # "no_slot", plugins)
        public(twin) == Page(FALSE, twin, req[1], req[2], app, Range(langs),
                             shape # "no_slot", plugins)
    IN  CASE shape = "absent" -> <<>>
          [] shape = "draft" -> <<draft(0)>>
          [] OTHER -> <<draft(offset + 2), public(offset + 1)>>

RECURSIVE PagesOf(_, _, _, _)
PagesOf(site, shape, registration, built) ==
    IF site \notin Sites THEN built
    ELSE PagesOf(site + 1, shape, registration,
                 built \o SitePages(Requirement(site), shape[site], registration, Len(built)))

\* The customers a store can hold (pk 0: not yet stored).
CustomerShapes ==
    {Customer(0, TRUE, FALSE, r, g, a, e) : r \in BOOLEAN, g \in BOOLEAN, a \in BOOLEAN,
                                            e \in BOOLEAN}
    \cup {Customer(0, TRUE, TRUE, TRUE, FALSE, FALSE, FALSE),
          Customer(0, FALSE, FALSE, FALSE, FALSE, TRUE, TRUE)}

GoodSettings ==
    [AUTH_USER_MODEL |-> "email_auth.User",
     STATICFILES_FINDERS |-> {"django.contrib.staticfiles.finders.FileSystemFinder",
                              "sass_processor.finders.CssFinder"},
     STATICFILES_DIRS |-> << [prefix |-> "node_modules", path |-> "/srv/node_modules"] >>,
     NODE_MODULES_URL |-> Path(<<"static", "node_modules">>, TRUE),
     TEMPLATES |-> << [BACKEND |-> DjangoTemplates, has_OPTIONS |-> TRUE,
                       context_processors |-> {"shop.context_processors.customer",
                                               "shop.context_processors.shop_settings"}] >>,
     SASS_PROCESSOR_INCLUDE_DIRS |-> << Path(<<"srv", "node_modules">>, FALSE) >>,
     COERCE_DECIMAL_TO_STRING |-> PyTrue,
     FSM_ADMIN_FORCE_PERMIT |-> PyTrue,
     SERIALIZATION_MODULES_json |-> "shop.money.serializers",
     DEFAULT_RENDERER_CLASSES |-> {"shop.rest.money.JSONRenderer"},
     DEFAULT_FILTER_BACKENDS |-> {"django_filters.rest_framework.DjangoFilterBackend"},
     LOGIN_SERIALIZER |-> "shop.serializers.auth.LoginSerializer",
     CMSPLUGIN_CASCADE_PLUGINS |-> {"cmsplugin_cascade.bootstrap4", "shop.cascade"}]

SettingKeys == DOMAIN GoodSettings

Engine(backend, has_options, cps) ==
    [BACKEND |-> backend, has_OPTIONS |-> has_options, context_processors |-> cps]

\* Other values a setting can have; an absent setting reads as its default.
OtherValues(key) ==
    CASE key = "AUTH_USER_MODEL" -> {None, "auth.User"}
      [] key = "STATICFILES_FINDERS" ->
             {{}, {"django.contrib.staticfiles.finders.FileSystemFinder"}}
      [] key = "STATICFILES_DIRS" ->
             { <<>>,
               << [prefix |-> "static", path |-> "/srv/static"] >>,
               << [prefix |-> None, path |-> "/srv/static"] >>,
               << [prefix |-> "node_modules", path |-> "/srv/node_modules"],
                  [prefix |-> None, path |-> "/srv/static"] >> }
      [] key = "NODE_MODULES_URL" ->
             { Path(<<>>, FALSE), Path(<<"static">>, TRUE),
               Path(<<"static", "node_modules">>, FALSE),
               Path(<<"node_modules", "bootstrap">>, FALSE) }
      [] key = "TEMPLATES" ->
             { <<>>,
               << Engine("django.template.backends.jinja2.Jinja2", TRUE, {}) >>,
               << Engine(DjangoTemplates, FALSE, {}) >>,
               << Engine(DjangoTemplates, TRUE, {}) >>,
               << Engine(DjangoTemplates, TRUE, {"shop.context_processors.customer"}) >>,
               << Engine(DjangoTemplates, TRUE, {"shop.context_processors.shop_settings"}) >>,
               << Engine(DjangoTemplates, TRUE, {"shop.context_processors.shop_settings"}),
                  Engine(DjangoTemplates, TRUE, {"shop.context_processors.shop_settings"}) >>,
               << Engine("django.template.backends.jinja2.Jinja2", TRUE, {}),
                  Engine(DjangoTemplates, TRUE, {"shop.context_processors.customer",
                                                 "shop.context_processors.shop_settings"}) >> }
      [] key = "SASS_PROCESSOR_INCLUDE_DIRS" ->
             { <<>>, << Path(<<"srv", "static">>, FALSE) >>,
               << Path(<<"srv", "static">>, FALSE), Path(<<"srv", "node_modules">>, FALSE) >> }
      [] key \in {"COERCE_DECIMAL_TO_STRING", "FSM_ADMIN_FORCE_PERMIT"} -> {None, PyFalse}
      [] key = "SERIALIZATION_MODULES_json" ->
             {None, "django.core.serializers.json"}
      [] key = "DEFAULT_RENDERER_CLASSES" ->
             {{}, {"rest_framework.renderers.JSONRenderer"}}
      [] key = "DEFAULT_FILTER_BACKENDS" -> {{}}
      [] key = "LOGIN_SERIALIZER" -> {None}
      [] OTHER -> {{}, {"cmsplugin_cascade.bootstrap4"}}

NoInvocation ==
    /\ subcommand = ""
    /\ options = [delete_expired |-> FALSE, add_missing |-> FALSE]
    /\ stdout = <<>>
    /\ stderr = <<>>
    /\ error = "none"
    /\ pages_before = pages
    /\ customers_before = customers

AllDirect == [b \in Range(BaseApphooks) |-> "direct"]

\* A shop in operation: every required page in place.
ShopPages == PagesOf(0, [site \in Sites |-> "ok"], AllDirect, <<>>)

\* A site whose pages are all missing or all in place, but for at most
\* MaxDeviations pages or apphook registrations.
InitPages ==
    \E base \in {"absent", "ok"} :
    \E D \in SUBSET Sites : \E R \in SUBSET Range(BaseApphooks) :
        /\ Cardinality(D) + Cardinality(R) <= MaxDeviations
        /\ \E f \in [D -> Shapes] : \E g \in [R -> Registrations] :
            LET shape == [site \in Sites |-> IF site \in D THEN f[site] ELSE base]
                registration == [b \in Range(BaseApphooks) |->
                                    IF b \in R THEN g[b] ELSE "direct"]
            IN  /\ apphook_pool = PoolOf(BaseApphooks, registration)
                /\ pages = PagesOf(0, shape, registration, <<>>)
        /\ product_pages = {}
        /\ customers = <<>>
        /\ settings = GoodSettings

InitCustomers ==
    /\ \E n \in 0..MaxCustomers : \E shape \in [1..n -> CustomerShapes] :
           customers = [pk \in 1..n |-> [shape[pk] EXCEPT !.pk = pk]]
    /\ pages = ShopPages
    /\ product_pages = {}
    /\ apphook_pool = PoolOf(BaseApphooks, AllDirect)
    /\ settings = GoodSettings

\* The settings that differ from GoodSettings in at most n keys.
RECURSIVE SettingsWithFaults(_)
SettingsWithFaults(n) ==
    IF n = 0 THEN {GoodSettings}
    ELSE LET fewer == SettingsWithFaults(n - 1)
         IN  fewer \cup UNION { UNION { {[s EXCEPT ![k] = v] : v \in OtherValues(k)}
                                        : k \in SettingKeys }
                                : s \in fewer }

InitSettings ==
    /\ settings \in SettingsWithFaults(MaxSettingsFaults)
    /\ pages = ShopPages
    /\ product_pages = {}
    /\ apphook_pool = PoolOf(BaseApphooks, AllDirect)
    /\ customers = <<>>

Init == (InitPages \/ InitCustomers \/ InitSettings) /\ NoInvocation

(***************************************************************************)
(* Command.handle: one invocation of `./manage.py shop <subcommand>`.      *)
(***************************************************************************)
Header(text) == Message("header", text)

HandleCustomers ==
    \E delete_expired \in BOOLEAN :
        \E run \in {customers_command(customers, delete_expired)} :
            /\ subcommand' = "customers"
            /\ options' = [delete_expired |-> delete_expired, add_missing |-> FALSE]
            /\ customers' = run.customers
            /\ stdout' = << Message("census", run.data) >>
            /\ stderr' = <<>>
            /\ error' = "none"
            /\ pages_before' = pages
            /\ customers_before' = customers
            /\ UNCHANGED <<pages, product_pages, apphook_pool, settings>>

HandleCheckPages ==
    \E add_missing \in BOOLEAN :
        \E run \in {check_pages(pages, product_pages, add_missing)} :
            /\ subcommand' = "check-pages"
            /\ options' = [delete_expired |-> FALSE, add_missing |-> add_missing]
            /\ pages' = run.pages
            /\ product_pages' = run.product_pages
            /\ stdout' = << Header("The following CMS pages must be adjusted:") >> \o run.out
            /\ stderr' = <<>>
            /\ error' = run.exc
            /\ pages_before' = pages
            /\ customers_before' = customers
            /\ UNCHANGED <<apphook_pool, customers, settings>>

HandleReviewSettings ==
    \E run \in {review_settings(settings)} :
        /\ subcommand' = "review-settings"
        /\ options' = [delete_expired |-> FALSE, add_missing |-> FALSE]
        /\ stdout' = << Header("The following configuration settings must be fixed:") >>
                     \o [k \in DOMAIN run.out |-> Message("setting", run.out[k])]
        /\ stderr' = <<>>
        /\ error' = run.exc
        /\ pages_before' = pages
        /\ customers_before' = customers
        /\ UNCHANGED <<pages, product_pages, apphook_pool, customers, settings>>

HandleUnknown ==
    \E name \in {"customer", "check_pages"} : \E flag \in BOOLEAN :
        /\ subcommand' = name
        /\ options' = [delete_expired |-> flag, add_missing |-> flag]
        /\ stdout' = <<>>
        /\ stderr' = << Message(format({}, {}), "Unknown sub-command for shop.") >>
        /\ error' = "none"
        /\ pages_before' = pages
        /\ customers_before' = customers
        /\ UNCHANGED <<pages, product_pages, apphook_pool, customers, settings>>

Next == HandleCustomers \/ HandleCheckPages \/ HandleReviewSettings \/ HandleUnknown

Spec == Init /\ [][Next]_vars

\* Each sub-command on its own stores.
PagesInit == InitPages /\ NoInvocation
CustomersInit == InitCustomers /\ NoInvocation
SettingsInit == InitSettings /\ NoInvocation

SpecPages == PagesInit /\ [][HandleCheckPages]_vars
SpecCustomers == CustomersInit /\ [][HandleCustomers]_vars
SpecSettings == SettingsInit /\ [][HandleReviewSettings]_vars

(***************************************************************************)
(* Vocabulary of the properties: what the specification calls a located,   *)
(* conformant or repaired page, stated on the stores directly.             *)
(***************************************************************************)
Rows == DOMAIN page_attributes

\* The published pages carrying a reverse id.
PublishedWith(pgs, reverse_id) ==
    {i \in DOMAIN pgs : ~pgs[i].publisher_is_draft /\ pgs[i].reverse_id = reverse_id}

\* The page the Page Locator looks at: the first of them.
Located(pgs, reverse_id) ==
    pgs[CHOOSE i \in PublishedWith(pgs, reverse_id) :
            \A j \in PublishedWith(pgs, reverse_id) : i <= j]

\* The registered apphooks inheriting from a base class.
InstalledFor(base) == {i \in DOMAIN apphook_pool : base \in apphook_pool[i].bases}

\* The page is bound to the installed handler the requirement names.
HandlerBound(page, base) ==
    \/ base = None
    \/ /\ InstalledFor(base) # {}
       /\ \E i \in InstalledFor(base) :
              /\ \A j \in InstalledFor(base) : i <= j
              /\ page.application_urls = apphook_pool[i].name

WidgetsIn(page, language, plugin_type) ==
    {k \in DOMAIN page.plugins : /\ page.plugins[k].plugin_type = plugin_type
                                 /\ page.plugins[k].language = language}

\* Some widget of the type, in that language, has the required configuration.
WidgetIn(page, language, plugin_type, subset) ==
    \E k \in WidgetsIn(page, language, plugin_type) : subset \subseteq page.plugins[k].glossary

\* The widget the Page Locator examines (the first of its type) has it.
FirstWidgetIn(page, language, plugin_type, subset) ==
    \E k \in WidgetsIn(page, language, plugin_type) :
        /\ \A j \in WidgetsIn(page, language, plugin_type) : k <= j
        /\ subset \subseteq page.plugins[k].glossary

WidgetsInPlace(page, req) ==
    /\ page.slot
    /\ \A language \in page.languages : FirstWidgetIn(page, language, req[4], req[5])

Conformant(pgs, req) ==
    /\ PublishedWith(pgs, req[2]) # {}
    /\ HandlerBound(Located(pgs, req[2]), req[3])
    /\ WidgetsInPlace(Located(pgs, req[2]), req)

Check(pgs, req) == check_page_content(pgs, req[2], req[3], req[4], req[5])

CheckPagesRan == subcommand = "check-pages"
Findings == Tail(stdout)
Created(title) == \E k \in DOMAIN stdout : stdout[k] = Message("Created", title)

(***************************************************************************)
(* C1  Idempotence of repair.                                              *)
(***************************************************************************)
\* What a second check-pages run, started in the current state, finds.
SecondRunClean ==
    \A second \in {check_pages(pages, product_pages, FALSE)} :
        second.out = <<>> /\ second.exc = "none"

Repairable(pgs) ==
    \A r \in Rows : \/ PublishedWith(pgs, page_attributes[r][2]) = {}
                    \/ Conformant(pgs, page_attributes[r])

C2_ConditionsNeverAbortTheRun ==
    CheckPagesRan => error \notin {"MissingPage", "MissingAppHook", "MissingPlugin"}

(***************************************************************************)
(* C3  check_page_content returns or raises one of three typed failures.   *)
(***************************************************************************)
ExpectedFailure(pgs, req) ==
    IF PublishedWith(pgs, req[2]) = {} THEN "MissingPage"
    ELSE IF ~HandlerBound(Located(pgs, req[2]), req[3]) THEN "MissingAppHook"
    ELSE IF ~WidgetsInPlace(Located(pgs, req[2]), req) THEN "MissingPlugin"
    ELSE "none"

\* C3: on every page store and for every row of the page table,
\* check_page_content returns normally or raises MissingPage, else
\* MissingAppHook, else MissingPlugin, decided in that order; nothing else
\* escapes from it.
C3_OnlyTypedFailures ==
    \A r \in Rows : Check(pages, page_attributes[r]).exc = ExpectedFailure(pages, page_attributes[r])

(***************************************************************************)
(* C4  The configuration subset check, in every language of the page.      *)
(***************************************************************************)
\* C4: check_page_content succeeds only if every language of the located
\* page holds a widget of the required type whose configuration contains
\* the required subset; it does succeed when the widgets of that type
\* contain it (extra keys allowed); and with the handler in place, a
\* language without such a widget is a MissingPlugin failure.
C4_SubsetInEveryLanguage ==
    \A r \in Rows : \A req \in {page_attributes[r]} :
        \A exc \in {Check(pages, req).exc} :
            IF PublishedWith(pages, req[2]) = {} THEN exc # "none"
            ELSE \A page \in {Located(pages, req[2])} :
                /\ exc = "none" =>
                       \A l \in page.languages : WidgetIn(page, l, req[4], req[5])
                /\ HandlerBound(page, req[3]) =>
                       /\ (\E l \in page.languages : ~WidgetIn(page, l, req[4], req[5]))
                              => exc = "MissingPlugin"
                       /\ (/\ page.slot
                           /\ \A l \in page.languages :
                                  /\ WidgetsIn(page, l, req[4]) # {}
                                  /\ \A k \in WidgetsIn(page, l, req[4]) :
                                         req[5] \subseteq page.plugins[k].glossary)
                              => exc = "none"

\* A run has checked a page whose widget carries the required pair and an
\* extra key, and the check of that page succeeds.
C4_Witness ==
    /\ CheckPagesRan
    /\ \E r \in Rows :
           LET req == page_attributes[r]
               page == Located(pages_before, req[2])
           IN  /\ PublishedWith(pages_before, req[2]) # {}
               /\ req[5] # {}
               /\ Check(pages_before, req).exc = "none"
               /\ \E k \in DOMAIN page.plugins :
                      /\ page.plugins[k].plugin_type = req[4]
                      /\ req[5] \subseteq page.plugins[k].glossary
                      /\ page.plugins[k].glossary # req[5]

(***************************************************************************)
(* C5  customers --delete-expired                                          *)
(***************************************************************************)
Expired(rows) == {k \in DOMAIN rows : rows[k].is_expired}

\* C5: after a customers --delete-expired run the store holds the prior
\* number of customers minus the prior number of expired ones; every
\* deleted customer was expired and every other customer is still there.
C5_DeletesExactlyTheExpired ==
    (subcommand = "customers" /\ options.delete_expired) =>
        /\ Len(customers) = Len(customers_before) - Cardinality(Expired(customers_before))
        /\ \A k \in DOMAIN customers_before :
               customers_before[k].is_expired
                   <=> ~\E j \in DOMAIN customers : customers[j] = customers_before[k]
        /\ \A j \in DOMAIN customers : \E k \in DOMAIN customers_before :
               customers[j] = customers_before[k]

C5_Witness ==
    /\ subcommand = "customers" /\ options.delete_expired
    /\ Expired(customers_before) # {}
    /\ Expired(customers_before) # DOMAIN customers_before
    /\ Len(customers) < Len(customers_before)

(***************************************************************************)
(* C6  The census counts.                                                  *)
(***************************************************************************)
Categories(c) ==
    Inc(c.is_registered) + Inc(c.is_guest) + Inc(c.is_anonymous)

\* The rows a census in priority order counts in each category.
Registered(rows) == {k \in DOMAIN rows : rows[k].is_registered}
GuestsOnly(rows) == {k \in DOMAIN rows : ~rows[k].is_registered /\ rows[k].is_guest}
AnonymousOnly(rows) ==
    {k \in DOMAIN rows : /\ ~rows[k].is_registered /\ ~rows[k].is_guest
                         /\ rows[k].is_anonymous}

\* C6: in both modes the census counts every customer in at most one of
\* registered, guests, anonymous, chosen in that priority, and when every
\* customer matches exactly one category, total = anonymous + guests +
\* registered.
C6_CensusConsistent ==
    subcommand = "customers" =>
        LET data == stdout[1].ref
        IN  /\ data.total = Len(customers_before)
            /\ data.registered = Cardinality(Registered(customers_before))
            /\ data.guests = Cardinality(GuestsOnly(customers_before))
            /\ data.anonymous = Cardinality(AnonymousOnly(customers_before))
            /\ data.registered + data.guests + data.anonymous <= data.total
            /\ (\A k \in DOMAIN customers_before : Categories(customers_before[k]) = 1)
                   => data.total = data.anonymous + data.guests + data.registered

\* A census, in the deleting mode, over a registered and a guest customer,
\* each matching exactly one category.
C6_Witness ==
    /\ subcommand = "customers" /\ options.delete_expired
    /\ \A k \in DOMAIN customers_before : Categories(customers_before[k]) = 1
    /\ stdout[1].ref.registered = 1
    /\ stdout[1].ref.guests = 1
    /\ stdout[1].ref.total = 2

(***************************************************************************)
(* C7  One diagnostic per failed rule, in rule-table order.                *)
(***************************************************************************)
RuleTable == <<"AUTH_USER_MODEL", "STATICFILES_FINDERS", "STATICFILES_DIRS",
               "NODE_MODULES_URL", "context_processors.customer",
               "context_processors.shop_settings", "SASS_PROCESSOR_INCLUDE_DIRS",
               "COERCE_DECIMAL_TO_STRING", "FSM_ADMIN_FORCE_PERMIT",
               "SERIALIZATION_MODULES", "DEFAULT_RENDERER_CLASSES",
               "DEFAULT_FILTER_BACKENDS", "REST_AUTH_SERIALIZERS",
               "CMSPLUGIN_CASCADE_PLUGINS">>

\* A Django template engine lacks the context processor.
EngineLacks(stg, processor) ==
    \E k \in DOMAIN stg.TEMPLATES :
        /\ stg.TEMPLATES[k].BACKEND = DjangoTemplates
        /\ processor \notin stg.TEMPLATES[k].context_processors

\* The configuration misses the requirement of the rule.
Misses(stg, rule) ==
    CASE rule = "AUTH_USER_MODEL" -> stg.AUTH_USER_MODEL # "email_auth.User"
      [] rule = "STATICFILES_FINDERS" ->
             "sass_processor.finders.CssFinder" \notin stg.STATICFILES_FINDERS
      [] rule = "STATICFILES_DIRS" ->
             ~\E k \in DOMAIN stg.STATICFILES_DIRS :
                  stg.STATICFILES_DIRS[k].prefix = "node_modules"
      [] rule = "NODE_MODULES_URL" -> ~ContainsNodeModulesDir(stg.NODE_MODULES_URL)
      [] rule = "context_processors.customer" ->
             EngineLacks(stg, "shop.context_processors.customer")
      [] rule = "context_processors.shop_settings" ->
             EngineLacks(stg, "shop.context_processors.shop_settings")
      [] rule = "SASS_PROCESSOR_INCLUDE_DIRS" ->
             ~\E k \in DOMAIN stg.SASS_PROCESSOR_INCLUDE_DIRS :
                  ContainsNodeModules(stg.SASS_PROCESSOR_INCLUDE_DIRS[k])
      [] rule = "COERCE_DECIMAL_TO_STRING" -> stg.COERCE_DECIMAL_TO_STRING # PyTrue
      [] rule = "FSM_ADMIN_FORCE_PERMIT" -> stg.FSM_ADMIN_FORCE_PERMIT # PyTrue
      [] rule = "SERIALIZATION_MODULES" ->
             stg.SERIALIZATION_MODULES_json # "shop.money.serializers"
      [] rule = "DEFAULT_RENDERER_CLASSES" ->
             "shop.rest.money.JSONRenderer" \notin stg.DEFAULT_RENDERER_CLASSES
      [] rule = "DEFAULT_FILTER_BACKENDS" ->
             "django_filters.rest_framework.DjangoFilterBackend"
                 \notin stg.DEFAULT_FILTER_BACKENDS
      [] rule = "REST_AUTH_SERIALIZERS" ->
             stg.LOGIN_SERIALIZER # "shop.serializers.auth.LoginSerializer"
      [] OTHER -> "shop.cascade" \notin stg.CMSPLUGIN_CASCADE_PLUGINS

MissedRules(stg) == SelectSeq(RuleTable, LAMBDA rule : Misses(stg, rule))

\* C7: review-settings yields exactly one diagnostic per rule the
\* configuration misses, in rule-table order, each naming its setting: none
\* when every rule is satisfied, one when exactly one rule is missed.
C7_OneDiagnosticPerMissedRule ==
    subcommand = "review-settings" =>
        /\ error = "none"
        /\ [k \in DOMAIN Findings |-> Findings[k].ref] = MissedRules(settings)

(***************************************************************************)
(* C8  Report modes are read-only.                                         *)
(***************************************************************************)
StoresUntouched == pages = pages_before /\ customers = customers_before

\* C8: check-pages without --add-missing, customers without
\* --delete-expired, review-settings and an unknown sub-command leave the
\* page store and the customer store as they were.
C8_ReportModesReadOnly ==
    /\ (subcommand = "check-pages" /\ ~options.add_missing) => StoresUntouched
    /\ (subcommand = "customers" /\ ~options.delete_expired) => StoresUntouched
    /\ subcommand \notin {"check-pages", "customers"} => StoresUntouched

\* A reporting check-pages run that found a page missing.
C8_Witness ==
    /\ subcommand = "check-pages" /\ ~options.add_missing
    /\ \E k \in DOMAIN Findings : Findings[k].kind = "MissingPage"

PagesWith(pgs, reverse_id) == SelectSeq(pgs, LAMBDA p : p.reverse_id = reverse_id)

\* A page is its draft; the public copy follows it.
DraftsWith(pgs, reverse_id) ==
    SelectSeq(pgs, LAMBDA p : p.reverse_id = reverse_id /\ p.publisher_is_draft)

Reported(req) ==
    \E k \in DOMAIN Findings :
        /\ Findings[k].kind \in {"MissingAppHook", "MissingPlugin"}
        /\ Findings[k].ref \in {req[2], req[3]}

\* C10: in a check-pages --add-missing run, for a page of the page table
\* that is published but not conformant (handler mismatch, widget missing
\* or misconfigured) no page or plugin is created or changed and the
\* finding is reported; and at most one page is created per requirement.
C10_WritesOnlyForMissingPages ==
    (CheckPagesRan /\ options.add_missing) =>
        \A r \in Rows :
            LET req == page_attributes[r]
            IN  /\ PublishedWith(pages_before, req[2]) # {} =>
                    /\ PagesWith(pages, req[2]) = PagesWith(pages_before, req[2])
                    /\ ~Conformant(pages_before, req) => Reported(req)
                /\ Len(DraftsWith(pages, req[2])) <= Len(DraftsWith(pages_before, req[2])) + 1

\* The part of C10 about the stores alone.
WritesOnlyForMissingPages ==
    (CheckPagesRan /\ options.add_missing) =>
        \A r \in Rows :
            LET req == page_attributes[r]
            IN  /\ PublishedWith(pages_before, req[2]) # {} =>
                    PagesWith(pages, req[2]) = PagesWith(pages_before, req[2])
                /\ Len(DraftsWith(pages, req[2])) <= Len(DraftsWith(pages_before, req[2])) + 1

====
